---------------------------- MODULE Spec2Model ----------------------------
(* WhatsApp webhook services of the repository:                            *)
(*   meta.py   - Meta Cloud API variant (POST /webhook answers by an       *)
(*               outbound Graph API call)                                  *)
(*   main.py   - Twilio variant (POST /webhook answers in the TwiML body)  *)
(*   ORIGIN.py - JSON variant (POST /webhook answers in the JSON body)     *)
(* Python strings are modelled as sequences of one-character strings, so   *)
(* that str.replace and re.sub are computed character by character.        *)
EXTENDS Integers, Sequences, FiniteSets, TLC

VARIABLES
    pc,               \* position of the request handler
    payload,          \* the inbound request being handled
    user_phone,       \* meta.py:134/146  local user_phone
    user_phone_clean, \* meta.py:147      local user_phone_clean (= session_id)
    message_type,     \* meta.py:149      local message_type
    user_message,     \* meta.py:157      local user_message
    agent_result,     \* outcome of library_agent.run for this request
    agent_calls,      \* invocations of library_agent.run made by this request
    sent,             \* send_whatsapp_message calls made by this request
    http,             \* the response returned by the handler
    raised,           \* TRUE when an exception left the handler
    app,              \* which service runs on the event loop (SpecLoop)
    loop,             \* request currently running on the event loop, 0 = none
    lpc,              \* per-request position (SpecLoop)
    hung,             \* per-request: the agent call never returns (SpecLoop)
    arg,              \* input of the pure function under check
    once,             \* f(arg)
    twice,            \* f(f(arg))
    fpc               \* how often the pure function has been applied

vars == << pc, payload, user_phone, user_phone_clean, message_type,
           user_message, agent_result, agent_calls, sent, http, raised,
           app, loop, lpc, hung, arg, once, twice, fpc >>

handlerVars == << pc, payload, user_phone, user_phone_clean, message_type,
                  user_message, agent_result, agent_calls, sent, http, raised >>
loopVars == << app, loop, lpc, hung >>
funVars == << arg, once, twice, fpc >>

-----------------------------------------------------------------------------
(* Bounds *)

\* longest string given to clean_reply in SpecClean
MaxLen == 3
\* most tokens concatenated into a raw sender in SpecResolve
MaxTokens == 3
\* number of concurrent webhook requests in SpecLoop
NumRequests == 3

-----------------------------------------------------------------------------
(* Strings *)

WHATSAPP_PREFIX == << "w","h","a","t","s","a","p","p",":" >>
PLUS == << "+" >>

ONLY_TEXT == <<
    "S","o","r","r","y",","," ","I"," ","c","a","n"," ","o","n","l","y"," ",
    "p","r","o","c","e","s","s"," ","t","e","x","t"," ","m","e","s","s","a",
    "g","e","s"," ","r","i","g","h","t"," ","n","o","w","!"," ","U+1F4DD" >>
OOPS == <<
    "O","o","p","s","!"," ","U+1F605"," ","I"," ","c","o","u","l","d","n","'",
    "t"," ","p","r","o","c","e","s","s"," ","t","h","a","t","." >>
FALLBACK == <<
    "S","o","m","e","t","h","i","n","g"," ","w","e","n","t"," ","w","r","o",
    "n","g"," ","U+1F648"," ","P","l","e","a","s","e"," ","t","r","y"," ","a",
    "g","a","i","n","!" >>

\* the character class of the pattern at meta.py:173: asterisk, underscore,
\* tilde and backtick (written "BACKTICK": one character of the string)
MARKUP == { "*", "_", "~", "BACKTICK" }

\* str.replace(old, ""): the non-overlapping occurrences of old, found left
\* to right, are deleted (old is not empty)
RECURSIVE str_replace(_, _)
str_replace(s, old) ==
    IF Len(s) < Len(old) THEN s
    ELSE IF SubSeq(s, 1, Len(old)) = old
         THEN str_replace(SubSeq(s, Len(old) + 1, Len(s)), old)
         ELSE << Head(s) >> \o str_replace(Tail(s), old)

\* re.sub(r"[<class>]", "", text): every character of the class is replaced
\* by the empty string, scanning left to right
RECURSIVE re_sub_class(_, _)
re_sub_class(class, text) ==
    IF text = << >> THEN << >>
    ELSE IF Head(text) \in class
         THEN re_sub_class(class, Tail(text))
         ELSE << Head(text) >> \o re_sub_class(class, Tail(text))

\* the pattern with the tilde forgotten
clean_reply_no_tilde(text) == re_sub_class(MARKUP \ { "~" }, text)

\* meta.py:171-174
clean_reply(text) == re_sub_class(MARKUP, text)

\* the second replace forgotten
CleanPhone_prefix_only(sender) == str_replace(sender, WHATSAPP_PREFIX)

\* the session identity: sender.replace("whatsapp:", "").replace("+", "")
CleanPhone(sender) == str_replace(str_replace(sender, WHATSAPP_PREFIX), PLUS)

-----------------------------------------------------------------------------
(* Values shared by the specifications *)

NoPayload == [ kind |-> "none" ]
NoneValue == [ k |-> "None", s |-> << >> ]
Str(s) == [ k |-> "str", s |-> s ]
NoResponse == [ status |-> 0, media |-> "none", body |-> NoneValue ]

HandlerIdle ==
    /\ pc = "idle"
    /\ payload = NoPayload
    /\ user_phone = NoneValue
    /\ user_phone_clean = NoneValue
    /\ message_type = "unset"
    /\ user_message = NoneValue
    /\ agent_result = [ k |-> "not_called", s |-> << >> ]
    /\ agent_calls = << >>
    /\ sent = << >>
    /\ http = NoResponse
    /\ raised = FALSE

LoopIdle ==
    /\ app = "none"
    /\ loop = 0
    /\ lpc = << >>
    /\ hung = << >>

FunIdle ==
    /\ arg = << >>
    /\ once = << >>
    /\ twice = << >>
    /\ fpc = "unused"

-----------------------------------------------------------------------------
(* Pure functions: the Reply Sanitizer and the Session Identity Resolver *)

RECURSIVE SeqsUpTo(_, _)
SeqsUpTo(S, n) ==
    IF n = 0 THEN { << >> }
    ELSE LET shorter == SeqsUpTo(S, n - 1)
         IN  shorter \cup { << c >> \o s : c \in S, s \in shorter }

CleanAlphabet == MARKUP \cup { "a", " " }
CleanInputs == SeqsUpTo(CleanAlphabet, MaxLen)

DIGITS == { "1", "5" }
SenderTokens == { WHATSAPP_PREFIX, << "w","h","a","t","s" >>,
                  << "a","p","p",":" >>, PLUS, << "1" >>, << "5" >> }

RECURSIVE Flatten(_)
Flatten(ss) == IF ss = << >> THEN << >> ELSE Head(ss) \o Flatten(Tail(ss))

SenderInputs == { Flatten(ts) : ts \in SeqsUpTo(SenderTokens, MaxTokens) }

InitClean ==
    /\ HandlerIdle /\ LoopIdle
    /\ arg \in CleanInputs
    /\ once = << >>
    /\ twice = << >>
    /\ fpc = "input"

\* reply_clean = clean_reply(reply)
CleanOnce ==
    /\ fpc = "input"
    /\ once' = clean_reply(arg)
    /\ fpc' = "once"
    /\ UNCHANGED << arg, twice, handlerVars, loopVars >>

\* the sanitizer applied to its own output
CleanAgain ==
    /\ fpc = "once"
    /\ twice' = clean_reply(once)
    /\ fpc' = "twice"
    /\ UNCHANGED << arg, once, handlerVars, loopVars >>

NextClean == CleanOnce \/ CleanAgain

SpecClean == InitClean /\ [][NextClean]_vars

InitResolve ==
    /\ HandlerIdle /\ LoopIdle
    /\ arg \in SenderInputs
    /\ once = << >>
    /\ twice = << >>
    /\ fpc = "input"

\* session_id = user_phone.replace("whatsapp:", "").replace("+", "")
ResolveOnce ==
    /\ fpc = "input"
    /\ once' = CleanPhone(arg)
    /\ fpc' = "once"
    /\ UNCHANGED << arg, twice, handlerVars, loopVars >>

\* the resolver applied to its own output
ResolveAgain ==
    /\ fpc = "once"
    /\ twice' = CleanPhone(once)
    /\ fpc' = "twice"
    /\ UNCHANGED << arg, once, handlerVars, loopVars >>

NextResolve == ResolveOnce \/ ResolveAgain

SpecResolve == InitResolve /\ [][NextResolve]_vars

-----------------------------------------------------------------------------
(* meta.py: POST /webhook *)

Senders == { << >>, PLUS, << "1","5" >>, PLUS \o << "1","5" >>,
             WHATSAPP_PREFIX \o PLUS \o << "1","5" >> }
Texts == { << >>, << "h","i" >> }
Replies == { << "o","k" >>, << "*","o","k","*"," ","_","~" >> }

\* values of message["from"]: absent or null, a string, another JSON value
Froms == { NoneValue, [ k |-> "other_truthy", s |-> << >> ],
           [ k |-> "other_falsy", s |-> << >> ] } \cup { Str(s) : s \in Senders }
\* values of message["text"]["body"]: absent, null, a string
Bodies == { [ k |-> "missing", s |-> << >> ], NoneValue } \cup { Str(s) : s \in Texts }

\* a request body in which nothing is present
Blank == [ kind |-> "meta", body |-> "object", entry |-> "missing",
           changes |-> "missing", value |-> "missing", messages |-> "missing",
           message |-> "missing", from |-> NoneValue, type |-> "missing",
           text |-> "missing", tbody |-> [ k |-> "missing", s |-> << >> ] ]
WithEntry == [ Blank EXCEPT !.entry = "ok" ]
WithChanges == [ WithEntry EXCEPT !.changes = "ok" ]
WithValue == [ WithChanges EXCEPT !.value = "ok" ]
WithMessages == [ WithValue EXCEPT !.messages = "ok" ]
WithMessage == [ WithMessages EXCEPT !.message = "object" ]

\* request bodies: each level of entry[0].changes[0].value.messages[0] is
\* absent ("missing"), an empty list ("empty"), of another shape ("bad":
\* indexing or .get on it raises) or as the provider sends it
MetaPayloads ==
    { [ Blank EXCEPT !.body = b ] : b \in { "not_json", "not_object" } }
    \cup { [ Blank EXCEPT !.entry = e ] : e \in { "missing", "empty", "bad" } }
    \cup { [ WithEntry EXCEPT !.changes = c ] : c \in { "missing", "empty", "bad" } }
    \cup { [ WithChanges EXCEPT !.value = v ] : v \in { "missing", "bad" } }
    \cup { [ WithValue EXCEPT !.messages = m ] : m \in { "missing", "empty", "bad" } }
    \cup { [ WithMessages EXCEPT !.message = "not_object" ] }
    \cup { [ WithMessage EXCEPT !.from = f, !.type = t, !.text = x ] :
             f \in Froms, t \in { "missing", "text", "image" },
             x \in { "missing", "not_object" } }
    \cup { [ WithMessage EXCEPT !.from = f, !.type = t, !.text = "object",
                                !.tbody = b ] :
             f \in Froms, t \in { "missing", "text", "image" }, b \in Bodies }

\* meta.py:136-137  data.get("entry", [{}])[0]
EntryOf(p) ==
    IF p.body # "object" THEN "raise"
    ELSE CASE p.entry = "missing" -> "empty_dict"
           [] p.entry \in { "empty", "bad" } -> "raise"
           [] OTHER -> "dict"

\* meta.py:138  entry.get("changes", [{}])[0]
ChangesOf(p) ==
    CASE EntryOf(p) = "raise" -> "raise"
      [] EntryOf(p) = "empty_dict" -> "empty_dict"
      [] OTHER -> CASE p.changes = "missing" -> "empty_dict"
                    [] p.changes \in { "empty", "bad" } -> "raise"
                    [] OTHER -> "dict"

\* meta.py:139  changes.get("value", {})
ValueOf(p) ==
    CASE ChangesOf(p) = "raise" -> "raise"
      [] ChangesOf(p) = "empty_dict" -> "empty_dict"
      [] OTHER -> CASE p.value = "missing" -> "empty_dict"
                    [] p.value = "bad" -> "not_dict"
                    [] OTHER -> "dict"

\* meta.py:140  value.get("messages", [])
MessagesOf(p) ==
    CASE ValueOf(p) \in { "raise", "not_dict" } -> "raise"
      [] ValueOf(p) = "empty_dict" -> "empty"
      [] OTHER -> CASE p.messages \in { "missing", "empty" } -> "empty"
                    [] p.messages = "bad" -> "bad"
                    [] OTHER -> "list"

\* the type check inverted away: every message counts as text
IsText_always(t) == TRUE

\* meta.py:150  message_type != "text", negated
IsText(t) == t = "text"

\* every value counts as true
Truthy_always(v) == TRUE

\* meta.py:187  if user_phone:
Truthy(v) == (v.k = "str" /\ v.s # << >>) \/ v.k = "other_truthy"

\* a non-success status raised, as with response.raise_for_status()
SendRaised_on_status(result) == result # "ok"

\* meta.py:110-113  send_whatsapp_message: an exception of client.post leaves
\* the call; a response of any status is logged and returned
SendRaised(result) == result = "raise"

SendResults == { "ok", "status_error", "raise" }

Ok200 == [ status |-> 200, media |-> "application/json",
           body |-> [ k |-> "status", s |-> << "o","k" >> ] ]

\* meta.py:157  message.get("text", {}).get("body", "")
BodyOf(p) ==
    IF p.text = "missing" \/ p.tbody.k = "missing" THEN Str(<< >>) ELSE p.tbody

Init ==
    /\ HandlerIdle /\ LoopIdle /\ FunIdle

\* a POST /webhook request arrives (meta.py:133-134)
Receive ==
    /\ pc \in { "idle", "done" }
    /\ \E p \in MetaPayloads : payload' = p
    /\ pc' = "handling"
    /\ user_phone' = NoneValue
    /\ user_phone_clean' = NoneValue
    /\ message_type' = "unset"
    /\ user_message' = NoneValue
    /\ agent_result' = [ k |-> "not_called", s |-> << >> ]
    /\ agent_calls' = << >>
    /\ sent' = << >>
    /\ http' = NoResponse
    /\ raised' = FALSE
    /\ UNCHANGED << loopVars, funVars >>

\* meta.py:136-160, up to the first call that is awaited after the body is read
Extract ==
    /\ pc = "handling"
    /\ UNCHANGED << payload, agent_result, agent_calls, sent, raised,
                    loopVars, funVars >>
    /\ CASE MessagesOf(payload) = "empty" ->
              \* :142-143
              /\ pc' = "done"
              /\ http' = Ok200
              /\ UNCHANGED << user_phone, user_phone_clean, message_type,
                              user_message >>
         [] MessagesOf(payload) \in { "raise", "bad" }
              \/ (MessagesOf(payload) = "list" /\ payload.message # "object") ->
              \* an exception of :136-146, user_phone still None
              /\ pc' = "except"
              /\ UNCHANGED << user_phone, user_phone_clean, message_type,
                              user_message, http >>
         [] OTHER ->
              /\ user_phone' = payload.from
              /\ http' = http
              /\ IF payload.from.k # "str"
                 THEN \* :147  .replace on a value that is no string
                      /\ pc' = "except"
                      /\ UNCHANGED << user_phone_clean, message_type, user_message >>
                 ELSE /\ user_phone_clean' = Str(CleanPhone(payload.from.s))
                      /\ message_type' = payload.type
                      /\ IF ~IsText(payload.type)
                         THEN /\ pc' = "send_unsupported"
                              /\ user_message' = user_message
                         ELSE IF payload.text = "not_object"
                         THEN \* :157  .get on a value that is no dict
                              /\ pc' = "except"
                              /\ user_message' = user_message
                         ELSE /\ pc' = "agent"
                              /\ user_message' = BodyOf(payload)

SendRecord(to, message, result) ==
    [ to |-> to, message |-> message, result |-> result ]

\* meta.py:151-155
SendUnsupported ==
    /\ pc = "send_unsupported"
    /\ \E result \in SendResults :
          /\ sent' = Append(sent, SendRecord(user_phone_clean.s, ONLY_TEXT, result))
          /\ IF SendRaised(result)
             THEN pc' = "except" /\ http' = http
             ELSE pc' = "done" /\ http' = Ok200
    /\ UNCHANGED << payload, user_phone, user_phone_clean, message_type,
                    user_message, agent_result, agent_calls, raised,
                    loopVars, funVars >>

\* outcomes of library_agent.run: a response with content, a response whose
\* content is None, no response, an exception
AgentResults ==
    { Str(c) : c \in Replies }
    \cup { [ k |-> r, s |-> << >> ] : r \in { "content_None", "no_response", "raise" } }

\* meta.py:165-178
RunAgent ==
    /\ pc = "agent"
    /\ \E r \in AgentResults :
          /\ agent_result' = r
          /\ pc' = IF r.k \in { "raise", "content_None" } THEN "except" ELSE "send_reply"
    /\ agent_calls' = Append(agent_calls,
                             [ message |-> user_message, session_id |-> user_phone_clean.s ])
    /\ UNCHANGED << payload, user_phone, user_phone_clean, message_type,
                    user_message, sent, http, raised, loopVars, funVars >>

\* meta.py:166  reply = response.content if response else "Oops! ..."
ReplyOf(r) == IF r.k = "no_response" THEN OOPS ELSE r.s

\* meta.py:176-191
SendReply ==
    /\ pc = "send_reply"
    /\ \E result \in SendResults :
          /\ sent' = Append(sent, SendRecord(user_phone_clean.s,
                                             clean_reply(ReplyOf(agent_result)), result))
          /\ IF SendRaised(result)
             THEN pc' = "except" /\ http' = http
             ELSE pc' = "done" /\ http' = Ok200
    /\ UNCHANGED << payload, user_phone, user_phone_clean, message_type,
                    user_message, agent_result, agent_calls, raised,
                    loopVars, funVars >>

\* meta.py:185-191
ErrorBranch ==
    /\ pc = "except"
    /\ pc' = "done"
    /\ IF ~Truthy(user_phone)
       THEN /\ http' = Ok200
            /\ UNCHANGED << sent, raised, user_phone_clean >>
       ELSE IF user_phone.k # "str"
       THEN \* :188  .replace raises inside the except block
            /\ raised' = TRUE
            /\ UNCHANGED << sent, http, user_phone_clean >>
       ELSE /\ user_phone_clean' = Str(CleanPhone(user_phone.s))
            /\ \E result \in SendResults :
                  /\ sent' = Append(sent, SendRecord(CleanPhone(user_phone.s),
                                                     FALLBACK, result))
                  /\ IF SendRaised(result)
                     THEN raised' = TRUE /\ http' = http
                     ELSE raised' = FALSE /\ http' = Ok200
    /\ UNCHANGED << payload, user_phone, message_type, user_message,
                    agent_result, agent_calls, loopVars, funVars >>

Next == Receive \/ Extract \/ SendUnsupported \/ RunAgent \/ SendReply \/ ErrorBranch

Spec == Init /\ [][Next]_vars

-----------------------------------------------------------------------------
(* main.py and ORIGIN.py: POST /webhook answered in the response body *)

ToNumbers == { PLUS \o << "1" >>, WHATSAPP_PREFIX \o PLUS \o << "1" >> }

InitBody ==
    /\ HandlerIdle /\ FunIdle
    /\ app \in { "main", "ORIGIN" }
    /\ loop = 0
    /\ lpc = << >>
    /\ hung = << >>

\* main.py:119/123  the reply text for an outcome of library_agent.run
TwilioReply(r) ==
    CASE r.k = "raise" -> FALLBACK
      [] r.k = "no_response" -> OOPS
      [] OTHER -> r.s

\* main.py:102-132: the whole handler, which awaits nothing. Form fields are
\* required strings. (A response whose content is None is left out: what the
\* TwiML builder makes of it is decided outside this repository.)
TwilioWebhook ==
    /\ app = "main"
    /\ pc \in { "idle", "done" }
    /\ \E Body \in Texts, From \in Senders, To \in ToNumbers :
       \E r \in AgentResults \ { [ k |-> "content_None", s |-> << >> ] } :
          /\ payload' = [ kind |-> "form", Body |-> Body, From |-> From, To |-> To ]
          /\ user_message' = Str(Body)
          /\ user_phone' = Str(From)
          /\ user_phone_clean' = Str(CleanPhone(From))
          /\ agent_calls' = << [ message |-> Str(Body),
                                 session_id |-> CleanPhone(From) ] >>
          /\ agent_result' = r
          /\ http' = [ status |-> 200, media |-> "application/xml",
                       body |-> [ k |-> "Message", s |-> TwilioReply(r) ] ]
          /\ raised' = FALSE
    /\ pc' = "done"
    /\ UNCHANGED << message_type, sent, loopVars, funVars >>

\* ORIGIN.py:57-63: the whole handler; nothing catches what
\* library_agent.run raises, and response.content of no response raises
OriginWebhook ==
    /\ app = "ORIGIN"
    /\ pc \in { "idle", "done" }
    /\ \E message \in Texts, session_id \in Senders, r \in AgentResults :
          /\ payload' = [ kind |-> "json", user_message |-> message,
                          session_id |-> session_id ]
          /\ user_message' = Str(message)
          /\ user_phone_clean' = Str(session_id)
          /\ agent_calls' = << [ message |-> Str(message),
                                 session_id |-> session_id ] >>
          /\ agent_result' = r
          /\ IF r.k \in { "raise", "no_response" }
             THEN raised' = TRUE /\ http' = NoResponse
             ELSE /\ raised' = FALSE
                  /\ http' = [ status |-> 200, media |-> "application/json",
                               body |-> [ k |-> IF r.k = "str" THEN "reply"
                                                ELSE "reply_null",
                                          s |-> r.s ] ]
    /\ pc' = "done"
    /\ UNCHANGED << user_phone, message_type, sent, loopVars, funVars >>

NextBody == TwilioWebhook \/ OriginWebhook

SpecBody == InitBody /\ [][NextBody]_vars

-----------------------------------------------------------------------------
(* The event loop: requests of one service, each invoking the agent *)

Requests == 1..NumRequests

InitLoop ==
    /\ HandlerIdle /\ FunIdle
    /\ app \in { "meta", "main" }
    /\ loop = 0
    /\ lpc = [ r \in Requests |-> "pending" ]
    /\ hung \in [ Requests -> BOOLEAN ]

\* the event loop, running nothing, starts the handler of a request
LoopStart(r) ==
    /\ loop = 0
    /\ lpc[r] = "pending"
    /\ loop' = r
    /\ lpc' = [ lpc EXCEPT ![r] = "running" ]
    /\ UNCHANGED << app, hung, handlerVars, funVars >>

\* meta.py:165  await asyncio.to_thread(library_agent.run, ...): the call runs
\*              on a worker thread and the coroutine gives up the loop
\* main.py:115  library_agent.run(...) called in the coroutine: the loop
\*              stays with this request until the call returns
LoopCallAgent(r) ==
    /\ loop = r
    /\ lpc[r] = "running"
    /\ lpc' = [ lpc EXCEPT ![r] = "in_agent" ]
    /\ loop' = IF app = "meta" THEN 0 ELSE r
    /\ UNCHANGED << app, hung, handlerVars, funVars >>

\* library_agent.run returns or raises, unless it hangs
LoopAgentReturns(r) ==
    /\ lpc[r] = "in_agent"
    /\ ~hung[r]
    /\ lpc' = [ lpc EXCEPT ![r] = "agent_done" ]
    /\ UNCHANGED << app, loop, hung, handlerVars, funVars >>

\* the rest of the handler runs on the loop and the response is returned
LoopFinish(r) ==
    /\ lpc[r] = "agent_done"
    /\ loop \in { 0, r }
    /\ lpc' = [ lpc EXCEPT ![r] = "done" ]
    /\ loop' = 0
    /\ UNCHANGED << app, hung, handlerVars, funVars >>

NextLoop ==
    \E r \in Requests :
        LoopStart(r) \/ LoopCallAgent(r) \/ LoopAgentReturns(r) \/ LoopFinish(r)

SpecLoop == InitLoop /\ [][NextLoop]_vars

-----------------------------------------------------------------------------
(* C1, C2, C3, C4, C8, C9: meta.py POST /webhook, under Spec *)

IsDigits(s) == Len(s) > 0 /\ \A i \in 1..Len(s) : s[i] \in DIGITS

ReachesMessage(p) ==
    p.kind = "meta" /\ MessagesOf(p) = "list" /\ p.message = "object"

\* the first message carries a sender: a non-empty string
HasSender(p) == ReachesMessage(p) /\ p.from.k = "str" /\ p.from.s # << >>

WellFormedText(p) ==
    /\ HasSender(p)
    /\ p.type = "text" /\ p.text = "object"
    /\ p.tbody.k = "str" /\ p.tbody.s # << >>

\* C1: every request ends with HTTP 200 {"status": "ok"}; no exception
\* leaves the handler.
C1_AlwaysAcknowledged == pc = "done" => http = Ok200 /\ ~raised

\* C2: for a well-formed text message whose agent invocation raises, the
\* handler returns HTTP 200 {"status": "ok"} and exactly one outbound message
\* is sent, the fallback text to the normalized sender.
C2_AgentRaiseOneFallback ==
    pc = "done" /\ WellFormedText(payload) /\ agent_result.k = "raise" =>
        /\ http = Ok200 /\ ~raised
        /\ Len(sent) = 1
        /\ sent[1].to = CleanPhone(payload.from.s)
        /\ sent[1].message = FALLBACK

\* C3: for a first message with a sender and a type other than "text", the
\* agent is never invoked, at any position of the handler, and the first
\* message sent is the "only text messages" reply to the normalized sender.
C3_NonTextShortCircuits ==
    HasSender(payload) /\ payload.type # "text" =>
        /\ agent_calls = << >>
        /\ pc \notin { "agent", "send_reply" }
        /\ pc \in { "except", "done" } =>
              /\ Len(sent) >= 1
              /\ sent[1].to = CleanPhone(payload.from.s)
              /\ sent[1].message = ONLY_TEXT

\* an image from whatsapp:+15 has been answered
C3_Witness ==
    /\ pc = "done"
    /\ HasSender(payload) /\ payload.type = "image"
    /\ payload.from.s = WHATSAPP_PREFIX \o PLUS \o << "1","5" >>
    /\ sent = << SendRecord(<< "1","5" >>, ONLY_TEXT, "ok") >>
    /\ http = Ok200

\* payloads C4 names: a level of the envelope absent, empty or of another
\* shape, no "from", or a text message from a sender given in digits whose
\* "text" is no object
Malformed(p) ==
    /\ p.kind = "meta"
    /\ \/ ~ReachesMessage(p)
       \/ p.from.k = "None"
       \/ /\ p.from.k = "str" /\ IsDigits(p.from.s)
          /\ p.type = "text" /\ p.text = "not_object"

\* C4 as stated: every malformed or empty payload is acknowledged with
\* HTTP 200, nothing is sent and the agent is not invoked.
C4_MalformedIsSilent ==
    pc = "done" /\ Malformed(payload) =>
        http = Ok200 /\ ~raised /\ sent = << >> /\ agent_calls = << >>

\* no message, or a message whose "from" is absent, null or another false value
NoSender(p) ==
    /\ p.kind = "meta"
    /\ \/ ~ReachesMessage(p)
       \/ p.from.k \in { "None", "other_falsy" }

\* C4 amended: a payload with no message or no sender in it is acknowledged
\* with HTTP 200, nothing is sent and the agent is not invoked; a text message
\* with a sender whose "text" is no object does not reach the agent either,
\* but one message, the fallback text, is sent to the normalized sender.
C4_NoSenderIsSilent ==
    /\ pc = "done" /\ NoSender(payload) =>
          http = Ok200 /\ ~raised /\ sent = << >> /\ agent_calls = << >>
    /\ HasSender(payload) /\ payload.type = "text" /\ payload.text = "not_object" =>
          /\ agent_calls = << >>
          /\ pc = "done" =>
                /\ Len(sent) = 1
                /\ sent[1].to = CleanPhone(payload.from.s)
                /\ sent[1].message = FALLBACK

\* a message without "from" has been acknowledged
C4_Witness ==
    /\ pc = "done"
    /\ ReachesMessage(payload) /\ payload.from.k = "None"
    /\ http = Ok200 /\ sent = << >>

\* C8 as stated: the agent is invoked only for a message of type "text" with
\* a non-empty text body.
C8_AgentOnlyNonEmptyText ==
    agent_calls # << >> =>
        /\ message_type = "text"
        /\ user_message.k = "str" /\ user_message.s # << >>

\* C8 amended: the agent is invoked only for a message of type "text", at most
\* once, with the body as extracted, which is the empty string when the body
\* is empty or absent, and with the normalized sender as session id.
C8_AgentOnlyText ==
    /\ pc \in { "agent", "send_reply" } \/ agent_calls # << >> =>
          payload.type = "text" /\ message_type = "text"
    /\ agent_calls # << >> =>
          /\ Len(agent_calls) = 1
          /\ agent_calls[1].message = BodyOf(payload)
          /\ agent_calls[1].session_id = CleanPhone(payload.from.s)

\* a text message without a body has reached the agent
C8_Witness ==
    /\ Len(agent_calls) = 1
    /\ payload.type = "text" /\ payload.text = "missing"
    /\ agent_calls[1].message = Str(<< >>)

\* C9 as stated: a failed send is only logged, so every request causes at
\* most one outbound send attempt.
C9_AtMostOneSend == Len(sent) <= 1

\* C9 amended: a send answered with a non-success status is only logged:
\* nothing is sent after it and the request is acknowledged with HTTP 200. A
\* request makes at most two send attempts, the second only after the first
\* raised, carrying the fallback text to the same recipient.
C9_StatusOnlyLogged ==
    /\ Len(sent) <= 2
    /\ \A i \in 1..Len(sent) :
          sent[i].result = "status_error" =>
              i = Len(sent) /\ pc = "done" /\ http = Ok200 /\ ~raised
    /\ Len(sent) = 2 =>
          /\ sent[1].result = "raise"
          /\ sent[2].message = FALLBACK
          /\ sent[2].to = sent[1].to

\* the reply to a text message was answered with a non-success status
C9_Witness ==
    /\ pc = "done"
    /\ Len(sent) = 1
    /\ sent[1].result = "status_error"
    /\ agent_calls # << >>

-----------------------------------------------------------------------------
(* C5 under SpecBody, C6 under SpecLoop *)

\* C5: in main.py and ORIGIN.py an exception of the agent invocation is
\* caught in the handler: the response is HTTP 200 carrying the fallback
\* text and no exception leaves the handler.
C5_AgentFailureCaught ==
    pc = "done" /\ agent_result.k = "raise" =>
        ~raised /\ http.status = 200 /\ http.body.s = FALLBACK

\* C6: in meta.py and main.py the agent invocation runs off the event loop:
\* a request whose agent call is in progress never holds the loop, so the
\* loop stays free for the other requests however long the call takes.
C6_AgentOffLoop == \A r \in Requests : lpc[r] = "in_agent" => loop # r

-----------------------------------------------------------------------------
(* C7, C10 *)

\* positions of text that hold no markup character
KeptPositions(text) == { i \in 1..Len(text) : text[i] \notin MARKUP }

\* C7: clean_reply(x) is x with every "*", "_", "~" and backtick deleted and
\* every other character kept in its original order; so the output holds none
\* of the four characters, and cleaning the output again changes nothing.
C7_CleanReplyDeletesMarkup ==
    /\ fpc \in { "once", "twice" } =>
          /\ \A i \in 1..Len(once) : once[i] \notin MARKUP
          /\ Len(once) = Cardinality(KeptPositions(arg))
          /\ \A i \in KeptPositions(arg) :
                once[Cardinality({ j \in KeptPositions(arg) : j <= i })] = arg[i]
    /\ fpc = "twice" => twice = once

\* a string with markup and other characters has been cleaned twice
C7_Witness ==
    /\ fpc = "twice"
    /\ arg = << "*", "a", "~" >>
    /\ once = << "a" >>

\* the digits of a sender of the form [whatsapp:][+]<digits>, else << >>
ProviderDigits(x) ==
    LET ds == { d \in { SubSeq(x, i, Len(x)) : i \in 1..Len(x) } :
                  /\ IsDigits(d)
                  /\ x \in { d, PLUS \o d, WHATSAPP_PREFIX \o d,
                             WHATSAPP_PREFIX \o PLUS \o d } }
    IN  IF ds = { } THEN << >> ELSE CHOOSE d \in ds : TRUE

\* C10 as stated: for every raw sender string, applying the resolver to its
\* own output changes nothing.
C10_ResolveIdempotent == fpc = "twice" => twice = once

\* C10 amended: the output never holds a "+", and for a sender of the form
\* whatsapp:+<digits>, whatsapp:<digits>, +<digits> or <digits> the output is
\* <digits> and applying the resolver again changes nothing.
C10_ResolveProviderForms ==
    /\ fpc \in { "once", "twice" } =>
          /\ \A i \in 1..Len(once) : once[i] # "+"
          /\ ProviderDigits(arg) # << >> => once = ProviderDigits(arg)
    /\ fpc = "twice" /\ ProviderDigits(arg) # << >> => twice = once

\* whatsapp:+1 has been resolved twice
C10_Witness ==
    /\ fpc = "twice"
    /\ arg = WHATSAPP_PREFIX \o PLUS \o << "1" >>
    /\ once = << "1" >>

=============================================================================
